---- MODULE Spec2Model ----
(***************************************************************************)
(* Review-to-product rating aggregation of fastapi_ecommerce.              *)
(*                                                                         *)
(* The database holds a products table and a reviews table.  Each request  *)
(* runs in its own session; under the default READ COMMITTED isolation     *)
(* every statement sees what has been committed when it executes, so each  *)
(* awaited statement/commit of a review handler is one atomic step and the *)
(* steps of concurrent requests interleave.                                *)
(*                                                                         *)
(* A rating is the exact rational sum/count, kept as a reduced fraction    *)
(* <<numerator, denominator>>; 0.0 is <<0, 1>>.                            *)
(***************************************************************************)
EXTENDS Integers, Sequences, FiniteSets, TLC

\* ---- bounds of the model ----
MaxProducts == 2
NumRequests == 3
MaxAborts == 1

\* ---- program constants ----
MinGrade == 1
MaxGrade == 5

\* the review requests of a run, numbered in arrival order
Tasks == 1..NumRequests
ProductIds == 1..MaxProducts
\* grades a client may send: ReviewCreate.grade is an unconstrained int
GradeInputs == {MinGrade - 1, MinGrade, MaxGrade, MaxGrade + 1}
\* review ids a client may name in DELETE /reviews/{review_id}
ReviewIdInputs == 1..NumRequests
None == <<>>

VARIABLES
  products,   \* products table: sequence of rows, id = index
  reviews,    \* reviews table: sequence of rows, id = index
  pc,         \* pc[t]: position of request t in its handler
  req,        \* req[t]: the request's arguments and locals
  overlap,    \* overlap[t]: another review request was in flight during t's
  serial      \* so far review requests ran one at a time, each to completion

vars == <<products, reviews, pc, req, overlap, serial>>

\* ---- rationals ----
RECURSIVE GCD(_, _)
GCD(a, b) == IF b = 0 THEN a ELSE GCD(b, a % b)

Zero == <<0, 1>>

\* sum / count as a reduced fraction (count > 0)
Frac(sum, count) == LET g == GCD(sum, count) IN <<sum \div g, count \div g>>

\* ---- queries ----
ProductExists(p) == p \in 1..Len(products)

\* select(ProductModel).where(id == p, is_active == True).first()
ActiveProduct(p) == ProductExists(p) /\ products[p].is_active

\* select(ReviewModel).where(id == r, is_active == True).first()
ActiveReview(r) == r \in 1..Len(reviews) /\ reviews[r].is_active

\* a plausible slip: the is_active condition left out of the where clause
WhereClause_NoIsActive(revs, p) ==
  {r \in 1..Len(revs) : revs[r].product_id = p}

\* a plausible slip: the product_id condition left out of the where clause
WhereClause_NoProduct(revs, p) ==
  {r \in 1..Len(revs) : revs[r].is_active}

\* .where(ReviewModel.product_id == product_id, ReviewModel.is_active == True)
WhereClause(revs, p) ==
  {r \in 1..Len(revs) : revs[r].product_id = p /\ revs[r].is_active}

RECURSIVE SumGrades(_, _)
SumGrades(revs, S) ==
  IF S = {} THEN 0
  ELSE LET r == CHOOSE x \in S : TRUE
       IN revs[r].grade + SumGrades(revs, S \ {r})

\* a plausible slip: func.sum in place of func.avg
AvgGrade_Sum(revs, p) ==
  LET S == WhereClause(revs, p)
  IN IF S = {} THEN None ELSE <<SumGrades(revs, S), 1>>

\* select(func.avg(ReviewModel.grade)).where(...): NULL over no rows
AvgGrade(revs, p) ==
  LET S == WhereClause(revs, p)
  IN IF S = {} THEN None ELSE Frac(SumGrades(revs, S), Cardinality(S))

\* a plausible slip: the "or 0.0" default left out
ScalarOrZero_NoDefault(x) == x

\* result.scalar() or 0.0
ScalarOrZero(x) == IF x = None \/ x[1] = 0 THEN Zero ELSE x

\* a plausible slip: the rating is set only while it is still unset
RatingWritten_OnlyIfUnset(prods, p, avg) ==
  IF prods[p].rating = Zero THEN [prods EXCEPT ![p].rating = avg] ELSE prods

\* a plausible slip: the new average is blended into the stored rating
RatingWritten_Blend(prods, p, avg) ==
  LET old == prods[p].rating
  IN [prods EXCEPT ![p].rating =
        Frac(old[1] * avg[2] + avg[1] * old[2], 2 * old[2] * avg[2])]

\* product.rating = avg_rating; await db.commit()
RatingWritten(prods, p, avg) == [prods EXCEPT ![p].rating = avg]

\* update_product_rating run without interleaving, as a function of the tables
UpdateProductRating(prods, revs, p) ==
  RatingWritten(prods, p, ScalarOrZero(AvgGrade(revs, p)))

\* ---- review requests ----
\* positions inside a handler (a request in flight); other pcs end a request
ReviewWritePcs == {"insert", "deactivate"}
RecomputePcs == {"agg", "write"}
InFlightPcs == ReviewWritePcs \cup RecomputePcs
RejectedPcs == {"rejected400", "rejected404"}
InFlight(t) == pc[t] \in InFlightPcs
OthersInFlight(t) == \E u \in Tasks \ {t} : InFlight(u)

NoRequest ==
  [kind |-> "none", product_id |-> 0, grade |-> 0, review_id |-> 0,
   avg |-> None, calls |-> 0, ended_at |-> "none"]

\* request t arrives: the requests before it have arrived
Arrives(t) == pc[t] = "idle" /\ \A u \in Tasks : u < t => pc[u] # "idle"

\* the history of who overlapped whom, kept as request t arrives
Enter(t) ==
  /\ overlap' = [u \in Tasks |->
                   IF u = t THEN OthersInFlight(t)
                   ELSE IF InFlight(u) THEN TRUE ELSE overlap[u]]
  /\ serial' = (serial /\ ~OthersInFlight(t))

\* requests that ended in a storage failure or a cancellation
Aborted == {u \in Tasks : pc[u] \in {"error", "cancelled"}}

Init ==
  /\ products = <<>>
  /\ reviews = <<>>
  /\ pc = [t \in Tasks |-> "idle"]
  /\ req = [t \in Tasks |-> NoRequest]
  /\ overlap = [t \in Tasks |-> FALSE]
  /\ serial = TRUE

\* ---- POST /reviews/ : create_review ----
\* a plausible slip: an off-by-one upper limit
GradeOk_OffByOne(g) == MinGrade <= g /\ g <= MaxGrade + 1

\* if not 1 <= review.grade <= 5: 400
GradeOk(g) == MinGrade <= g /\ g <= MaxGrade

\* CheckConstraint('grade >= 1 AND grade <= 5') on the reviews table
CheckGradeRange(row) == row.grade >= 1 /\ row.grade <= 5

\* ReviewModel(**review.model_dump(), user_id=...); is_active defaults to True
NewReview(p, g) == [product_id |-> p, grade |-> g, is_active |-> TRUE]

\* the product select and the grade check; a rejected request writes nothing
StartCreateReview(t, p, g) ==
  /\ Arrives(t)
  /\ Enter(t)
  /\ req' = [req EXCEPT ![t] =
               IF ActiveProduct(p)
               THEN [NoRequest EXCEPT !.kind = "create", !.product_id = p, !.grade = g]
               ELSE [NoRequest EXCEPT !.kind = "create", !.grade = g]]
  /\ pc' = [pc EXCEPT ![t] =
              IF ~ActiveProduct(p) THEN "rejected404"
              ELSE IF ~GradeOk(g) THEN "rejected400"
              ELSE "insert"]
  /\ UNCHANGED <<products, reviews>>

\* a plausible slip: the insert left pending while the recomputation runs
CommitReview_Deferred(t) ==
  /\ pc[t] = "insert"
  /\ pc' = [pc EXCEPT ![t] = "agg"]
  /\ UNCHANGED <<products, reviews, req, overlap, serial>>

\* db.add(db_review); await db.commit(); await db.refresh(db_review)
CommitReview(t) ==
  /\ pc[t] = "insert"
  /\ LET row == NewReview(req[t].product_id, req[t].grade)
     IN IF CheckGradeRange(row) /\ ProductExists(row.product_id)
        THEN /\ reviews' = Append(reviews, row)
             /\ req' = [req EXCEPT ![t].review_id = Len(reviews) + 1]
             /\ pc' = [pc EXCEPT ![t] = "agg"]
             /\ UNCHANGED serial
        ELSE /\ pc' = [pc EXCEPT ![t] = "error"]   \* IntegrityError
             /\ req' = [req EXCEPT ![t].ended_at = "insert"]
             /\ serial' = FALSE
             /\ UNCHANGED reviews
  /\ UNCHANGED <<products, overlap>>

\* ---- DELETE /reviews/{review_id} : delete_review ----
\* a plausible slip: the recomputation started without the UPDATE before it
StartDeleteReview_NoWrite(t, r) ==
  /\ Arrives(t)
  /\ Enter(t)
  /\ IF ActiveReview(r)
     THEN /\ req' = [req EXCEPT ![t] =
                      [NoRequest EXCEPT !.kind = "delete", !.review_id = r,
                                        !.product_id = reviews[r].product_id,
                                        !.grade = reviews[r].grade]]
          /\ pc' = [pc EXCEPT ![t] = "agg"]
     ELSE /\ req' = [req EXCEPT ![t] = [NoRequest EXCEPT !.kind = "delete"]]
          /\ pc' = [pc EXCEPT ![t] = "rejected404"]
  /\ UNCHANGED <<products, reviews>>

\* the review select; review.product_id is what line 113 passes on
StartDeleteReview(t, r) ==
  /\ Arrives(t)
  /\ Enter(t)
  /\ IF ActiveReview(r)
     THEN /\ req' = [req EXCEPT ![t] =
                      [NoRequest EXCEPT !.kind = "delete", !.review_id = r,
                                        !.product_id = reviews[r].product_id,
                                        !.grade = reviews[r].grade]]
          /\ pc' = [pc EXCEPT ![t] = "deactivate"]
     ELSE /\ req' = [req EXCEPT ![t] = [NoRequest EXCEPT !.kind = "delete"]]
          /\ pc' = [pc EXCEPT ![t] = "rejected404"]
  /\ UNCHANGED <<products, reviews>>

\* a plausible slip: the flag is flipped instead of cleared
Deactivated_Toggle(revs, r) == [revs EXCEPT ![r].is_active = ~revs[r].is_active]

\* update(ReviewModel).where(id == review_id).values(is_active=False)
Deactivated(revs, r) == [revs EXCEPT ![r].is_active = FALSE]

\* await db.execute(update ...); await db.commit(); await db.refresh(review)
CommitDeactivate(t) ==
  /\ pc[t] = "deactivate"
  /\ reviews' = Deactivated(reviews, req[t].review_id)
  /\ pc' = [pc EXCEPT ![t] = "agg"]
  /\ UNCHANGED <<products, req, overlap, serial>>

\* ---- update_product_rating(db, product_id) ----
\* result = await db.execute(select(func.avg(...))); avg_rating = scalar or 0.0
ReadAverage(t) ==
  /\ pc[t] = "agg"
  /\ req' = [req EXCEPT
               ![t].avg = ScalarOrZero(AvgGrade(reviews, req[t].product_id)),
               ![t].calls = req[t].calls + 1]
  /\ pc' = [pc EXCEPT ![t] = "write"]
  /\ UNCHANGED <<products, reviews, overlap, serial>>

\* product = await db.get(ProductModel, product_id)  (None raises on .rating);
\* product.rating = avg_rating; await db.commit(); then the handler returns
\* (create_review's own trailing commit has nothing left to write)
CommitRating(t) ==
  /\ pc[t] = "write"
  /\ IF ProductExists(req[t].product_id)
     THEN /\ products' = RatingWritten(products, req[t].product_id, req[t].avg)
          /\ pc' = [pc EXCEPT ![t] = "done"]
          /\ req' = [req EXCEPT ![t].avg = None]
          /\ UNCHANGED serial
     ELSE /\ pc' = [pc EXCEPT ![t] = "error"]
          /\ req' = [req EXCEPT ![t].avg = None, ![t].ended_at = "write"]
          /\ serial' = FALSE
          /\ UNCHANGED products
  /\ UNCHANGED <<reviews, overlap>>

\* ---- failures ----
\* a plausible slip: the rating reaches the table although the commit raised
StorageFailure_PartialWrite(t) ==
  /\ InFlight(t)
  /\ Cardinality(Aborted) < MaxAborts
  /\ pc' = [pc EXCEPT ![t] = "error"]
  /\ req' = [req EXCEPT ![t].ended_at = pc[t], ![t].avg = None,
                         ![t].calls = IF pc[t] = "agg" THEN req[t].calls + 1
                                      ELSE req[t].calls]
  /\ products' = IF pc[t] = "write"
                 THEN RatingWritten(products, req[t].product_id, req[t].avg)
                 ELSE products
  /\ serial' = FALSE
  /\ UNCHANGED <<reviews, overlap>>

\* a statement or commit raises: the session's pending change is not written
\* and the exception leaves the handler (no except, no retry in the handlers)
StorageFailure(t) ==
  /\ InFlight(t)
  /\ Cardinality(Aborted) < MaxAborts
  /\ pc' = [pc EXCEPT ![t] = "error"]
  /\ req' = [req EXCEPT ![t].ended_at = pc[t], ![t].avg = None,
                         ![t].calls = IF pc[t] = "agg" THEN req[t].calls + 1
                                      ELSE req[t].calls]
  /\ serial' = FALSE
  /\ UNCHANGED <<products, reviews, overlap>>

\* the request is cancelled while awaiting a statement
Cancel(t) ==
  /\ InFlight(t)
  /\ Cardinality(Aborted) < MaxAborts
  /\ pc' = [pc EXCEPT ![t] = "cancelled"]
  /\ req' = [req EXCEPT ![t].ended_at = pc[t], ![t].avg = None]
  /\ serial' = FALSE
  /\ UNCHANGED <<products, reviews, overlap>>

\* ---- products router ----
\* A products handler reads only columns no other handler changes before its
\* single write, so each handler is one step.  seller_id is set at creation,
\* never updated and read only by the ownership test, so a request carries
\* the outcome of  product.seller_id == current_user.id  as the input owner.
Categories == {1, 2}
ActiveCategories == {1}
\* select(CategoryModel).where(id == c, is_active == True).first()
CategoryActive(c) == c \in ActiveCategories

\* a plausible slip: the request schema carries the rating column too
ProductCreate_WithRating(category_id) ==
  [category_id |-> category_id, rating |-> Zero]

\* the columns ProductCreate carries: model_dump() of a POST/PUT body
ProductCreate(category_id) == [category_id |-> category_id]

\* rating a products row gets when the INSERT names none
DefaultRating == Zero

\* ProductModel(**product.model_dump(), seller_id=current_user.id)
NewProduct(body) ==
  [category_id |-> body.category_id, is_active |-> TRUE, rating |-> DefaultRating]

create_product(body) ==
  /\ Len(products) < MaxProducts
  /\ products' = IF CategoryActive(body.category_id)
                 THEN Append(products, NewProduct(body))
                 ELSE products                              \* 400
  /\ UNCHANGED <<reviews, pc, req, overlap, serial>>

\* update(ProductModel).where(id == p).values(**product.model_dump())
ValuesSet(row, body) ==
  [f \in DOMAIN row |-> IF f \in DOMAIN body THEN body[f] ELSE row[f]]

update_product(p, body, owner) ==
  /\ products' =
       IF ~ProductExists(p) THEN products                   \* 404
       ELSE IF ~owner THEN products                         \* 403
       ELSE IF ~CategoryActive(body.category_id) THEN products \* 400
       ELSE [products EXCEPT ![p] = ValuesSet(products[p], body)]
  /\ UNCHANGED <<reviews, pc, req, overlap, serial>>

\* update(ProductModel).where(id == p).values(is_active=False)
delete_product(p, owner) ==
  /\ products' =
       IF ~ActiveProduct(p) THEN products                   \* 404
       ELSE IF ~owner THEN products                         \* 403
       ELSE [products EXCEPT ![p].is_active = FALSE]
  /\ UNCHANGED <<reviews, pc, req, overlap, serial>>

Next ==
  \/ \E t \in Tasks, p \in ProductIds, g \in GradeInputs : StartCreateReview(t, p, g)
  \/ \E t \in Tasks : CommitReview(t)
  \/ \E t \in Tasks, r \in ReviewIdInputs : StartDeleteReview(t, r)
  \/ \E t \in Tasks : CommitDeactivate(t)
  \/ \E t \in Tasks : ReadAverage(t)
  \/ \E t \in Tasks : CommitRating(t)
  \/ \E t \in Tasks : StorageFailure(t)
  \/ \E t \in Tasks : Cancel(t)
  \/ \E c \in Categories : create_product(ProductCreate(c))
  \/ \E p \in ProductIds, c \in Categories, owner \in BOOLEAN :
       update_product(p, ProductCreate(c), owner)
  \/ \E p \in ProductIds, owner \in BOOLEAN : delete_product(p, owner)

Spec == Init /\ [][Next]_vars

\* ---- vocabulary of the properties ----
Rating(p) == products[p].rating
Existing == 1..Len(products)
Quiescent == \A t \in Tasks : ~InFlight(t)

\* the active reviews of product p
ActiveReviewsOf(p) ==
  {r \in 1..Len(reviews) : reviews[r].product_id = p /\ reviews[r].is_active}

\* x * (number of p's active reviews) = sum of their grades; x = 0.0 when none
IsMeanOf(x, p) ==
  LET S == ActiveReviewsOf(p)
  IN /\ x # None
     /\ IF S = {} THEN x = Zero
        ELSE x[1] * Cardinality(S) = SumGrades(reviews, S) * x[2]

RatingIsMean(p) == IsMeanOf(Rating(p), p)

\* no existing product's rating differs across this step
RatingsKept == \A p \in Existing : products'[p].rating = products[p].rating

\* this step is request t's update_product_rating returning normally
Recomputed(t) == pc[t] = "write" /\ pc'[t] = "done"
\* this step is request t being rejected on arrival
Rejected(t) == pc[t] = "idle" /\ pc'[t] \in RejectedPcs
\* this step is request t's update_product_rating raising
FailsInRecompute(t) ==
  /\ pc[t] \in RecomputePcs
  /\ req'[t].ended_at \in RecomputePcs
  /\ pc'[t] # "cancelled"
\* this step cancels request t after its review write, before its rating write
CancelledInRecompute(t) == pc[t] \in RecomputePcs /\ pc'[t] = "cancelled"

\* request t's own review write is in the reviews table
OwnWriteCommitted(t) ==
  /\ req[t].review_id \in 1..Len(reviews)
  /\ reviews[req[t].review_id].product_id = req[t].product_id
  /\ reviews[req[t].review_id].grade = req[t].grade
  /\ req[t].kind = "delete" => ~reviews[req[t].review_id].is_active

\* the requests after t have not arrived
LastArrived(t) == \A u \in Tasks : u > t => pc[u] = "idle"

\* a rating changes only in the step that ends an update_product_rating call
\* for that product
OnlyRecomputeWritesRating ==
  \A p \in Existing :
    products'[p].rating # products[p].rating
      => \E t \in Tasks : Recomputed(t) /\ req[t].product_id = p

\* C1: when review requests have run one at a time, each to completion,
\* then after every completed request every product, active or soft-deleted,
\* has rating * (number of active reviews) = sum of their grades, and
\* rating 0.0 when it has no active review.
C1_SerialRatingIsMean ==
  (serial /\ Quiescent) => \A p \in Existing : RatingIsMean(p)

C1_Witness ==
  /\ serial /\ Quiescent
  /\ \A t \in Tasks : pc[t] = "done"
  /\ \E p \in Existing :
       /\ ~products[p].is_active
       /\ Cardinality(ActiveReviewsOf(p)) = 1
       /\ \E r \in 1..Len(reviews) :
            /\ reviews[r].product_id = p /\ ~reviews[r].is_active
            /\ Rating(p) # <<reviews[r].grade, 1>>
       /\ Rating(p) # Zero

\* C2: once two create_review requests for the same product have both
\* returned (no other request having written), the product's rating is the
\* mean of its active reviews, both new reviews included.
C2_NoLostUpdate ==
  \A t, u \in Tasks :
    ( /\ t # u
      /\ pc[t] = "done" /\ pc[u] = "done"
      /\ req[t].kind = "create" /\ req[u].kind = "create"
      /\ req[t].product_id = req[u].product_id
      /\ \A w \in Tasks \ {t, u} : pc[w] \in {"idle"} \cup RejectedPcs )
    => /\ {req[t].review_id, req[u].review_id}
            \subseteq ActiveReviewsOf(req[t].product_id)
       /\ RatingIsMean(req[t].product_id)

\* C3: a create_review whose grade is outside 1..5 (0 and 6 among them) is
\* rejected on arrival: it stores no review, never enters
\* update_product_rating and changes no rating; grades 1 and 5 on an active
\* product are accepted and stored; so every stored grade is within 1..5.
C3_GradeOutOfRangeRejected ==
  /\ [](\A r \in 1..Len(reviews) :
          MinGrade <= reviews[r].grade /\ reviews[r].grade <= MaxGrade)
  /\ [](\A t \in Tasks : pc[t] \in RejectedPcs => req[t].calls = 0)
  /\ [][\A t \in Tasks :
          (pc[t] = "idle" /\ req'[t].kind = "create") =>
            \A p \in ProductIds, g \in GradeInputs :
              StartCreateReview(t, p, g) =>
                IF g < MinGrade \/ g > MaxGrade
                THEN /\ Rejected(t)
                     /\ reviews' = reviews
                     /\ products' = products
                ELSE ActiveProduct(p) => pc'[t] = "insert"]_vars
  /\ [][\A t \in Tasks :
          /\ pc[t] \in RejectedPcs => pc'[t] = pc[t]
          /\ (pc[t] = "insert" /\ pc'[t] = "agg") =>
               reviews' = Append(reviews,
                 [product_id |-> req[t].product_id, grade |-> req[t].grade,
                  is_active |-> TRUE])]_vars

C3_Witness ==
  \E t, u, v \in Tasks :
    /\ pc[t] = "rejected400" /\ req[t].grade = MaxGrade + 1
    /\ pc[u] = "rejected400" /\ req[u].grade = MinGrade - 1
    /\ pc[v] = "done" /\ req[v].kind = "create" /\ req[v].grade = MaxGrade
    /\ reviews = <<[product_id |-> req[v].product_id, grade |-> MaxGrade,
                    is_active |-> TRUE]>>

\* C4: when update_product_rating raises (the avg query or the rating commit
\* fails, or the product row is missing), the failing step writes nothing, so
\* the rating is the one from before the call (the call's earlier step only
\* reads); the request ends in error and stays there (not swallowed, not
\* retried); the review write that triggered the call stays committed.
C4_FailedRecomputeKeepsRating ==
  /\ [][\A t \in Tasks :
          FailsInRecompute(t) =>
            /\ products' = products
            /\ reviews' = reviews
            /\ pc'[t] = "error"
            /\ OwnWriteCommitted(t)']_vars
  /\ [][\A t \in Tasks :
          /\ (pc[t] = "agg" /\ pc'[t] = "write") => products' = products
          /\ pc[t] = "error" => (pc'[t] = "error" /\ req'[t] = req[t])]_vars

C4_Witness ==
  \E t \in Tasks :
    /\ pc[t] = "error" /\ req[t].ended_at = "write"
    /\ req[t].kind = "create" /\ ~overlap[t]
    /\ OwnWriteCommitted(t)
    /\ reviews[req[t].review_id].is_active
    /\ Rating(req[t].product_id) = Zero

\* C5: cancelling a request after its review write committed and before its
\* recomputation finished leaves every rating as it was (stale); from then on
\* a rating moves only in the step that ends a later update_product_rating
\* call; and whenever a create_review or delete_review runs alone to
\* completion, its product's rating is the mean of the active reviews again.
C5_StaleUntilNextReviewEvent ==
  [][/\ \A t \in Tasks :
          CancelledInRecompute(t) => (products' = products /\ reviews' = reviews)
     /\ OnlyRecomputeWritesRating
     /\ \A t \in Tasks :
          (Recomputed(t) /\ ~overlap[t]) => RatingIsMean(req[t].product_id)']_vars

C5_Witness ==
  \E u, t \in Tasks :
    /\ u < t
    /\ pc[u] = "cancelled" /\ req[u].ended_at \in RecomputePcs
    /\ req[u].kind = "create" /\ ~overlap[u]
    /\ pc[t] = "done" /\ ~overlap[t] /\ req[t].kind = "create"
    /\ req[t].product_id = req[u].product_id
    /\ req[t].grade # req[u].grade
    /\ ActiveReviewsOf(req[t].product_id) = {req[u].review_id, req[t].review_id}
    /\ RatingIsMean(req[t].product_id)

\* C6: a product's rating changes only in the step that ends an
\* update_product_rating call for it: a step of create_product,
\* update_product or delete_product (no review request moves) and every
\* rejected review request leave all ratings as they were; and a request
\* enters update_product_rating only through the step that commits its own
\* review insert or deactivation, with that write in the reviews table.
C6_OnlyAggregatorWritesRating ==
  [][/\ OnlyRecomputeWritesRating
     \* a products-router step: no review request moves
     /\ (pc' = pc /\ req' = req) => (RatingsKept /\ reviews' = reviews)
     /\ \A t \in Tasks :
          /\ Rejected(t) => RatingsKept
          /\ (pc'[t] = "agg" /\ pc[t] # "agg") =>
               (pc[t] \in ReviewWritePcs /\ OwnWriteCommitted(t)')]_vars

C6_Witness ==
  /\ Len(products) = MaxProducts
  /\ \E p \in Existing :
       /\ ~products[p].is_active
       /\ Rating(p) # Zero
       /\ RatingIsMean(p)
  /\ \E t \in Tasks : pc[t] = "rejected404" /\ req[t].kind = "create"
  /\ \E t \in Tasks : pc[t] = "rejected400"

\* C7: a request that returned success entered update_product_rating exactly
\* once; the call's read of the review set comes after the request's own
\* review write is committed, is a read of the reviews of that review's
\* product, and the call's write goes to that product's row alone.
C7_OneRecomputeAfterOwnWrite ==
  /\ [](\A t \in Tasks : pc[t] = "done" => req[t].calls = 1)
  /\ [][\A t \in Tasks :
          /\ req'[t].calls # req[t].calls =>
               /\ req'[t].calls = req[t].calls + 1
               /\ pc[t] = "agg"
               /\ OwnWriteCommitted(t)
               /\ pc'[t] = "write" => IsMeanOf(req'[t].avg, req[t].product_id)
          /\ Recomputed(t) =>
               /\ req[t].product_id = reviews[req[t].review_id].product_id
               /\ \A p \in Existing :
                    p # req[t].product_id => products'[p] = products[p]]_vars

C7_Witness ==
  \E t, u \in Tasks :
    /\ pc[t] = "done" /\ req[t].kind = "create" /\ req[t].calls = 1
    /\ pc[u] = "done" /\ req[u].kind = "delete" /\ req[u].calls = 1
    /\ req[u].review_id = req[t].review_id
    /\ Rating(req[t].product_id) = Zero

\* C8: when a delete_review that ran alone returns, its product's rating is
\* the mean of the grades of the product's remaining active reviews, the
\* deleted one excluded, and 0.0 when none remains; grades [5,5,1] give 11/3
\* and, with the grade-1 review deactivated, 5.0.
C8_DeleteRecomputesWithoutDeleted ==
  /\ [][\A t \in Tasks :
          (Recomputed(t) /\ req[t].kind = "delete" /\ ~overlap[t]) =>
            LET p == req[t].product_id
                S == {r \in 1..Len(reviews) :
                        /\ reviews[r].product_id = p
                        /\ reviews[r].is_active
                        /\ r # req[t].review_id}
            IN /\ ~reviews[req[t].review_id].is_active
               /\ products'[p].rating =
                    IF S = {} THEN Zero
                    ELSE Frac(SumGrades(reviews, S), Cardinality(S))]_vars
  /\ [](LET prods == <<NewProduct(ProductCreate(1))>>
            revs == <<NewReview(1, 5), NewReview(1, 5), NewReview(1, 1)>>
        IN /\ UpdateProductRating(prods, revs, 1)[1].rating = <<11, 3>>
           /\ UpdateProductRating(prods, Deactivated(revs, 3), 1)[1].rating
                = <<5, 1>>)

C8_Witness ==
  \E t \in Tasks :
    /\ pc[t] = "done" /\ req[t].kind = "delete" /\ ~overlap[t]
    /\ LastArrived(t)
    /\ ActiveReviewsOf(req[t].product_id) # {}
    /\ Rating(req[t].product_id) # <<req[t].grade, 1>>
    /\ RatingIsMean(req[t].product_id)

\* C9: when a create_review with grade g that ran alone returns and its
\* review is the only review of its product, the product's rating is exactly
\* g; and update_product_rating gives exactly g for every g in 1..5.
C9_FirstReviewSetsRating ==
  /\ [][\A t \in Tasks :
          ( /\ Recomputed(t) /\ req[t].kind = "create" /\ ~overlap[t]
            /\ \A r \in 1..Len(reviews) :
                 reviews[r].product_id = req[t].product_id
                   => r = req[t].review_id )
          => products'[req[t].product_id].rating = <<req[t].grade, 1>>]_vars
  /\ [](\A g \in MinGrade..MaxGrade :
          UpdateProductRating(<<NewProduct(ProductCreate(1))>>,
                              <<NewReview(1, g)>>, 1)[1].rating = <<g, 1>>)

C9_Witness ==
  \E t \in Tasks :
    /\ pc[t] = "done" /\ req[t].kind = "create" /\ ~overlap[t]
    /\ LastArrived(t)
    /\ Len(reviews) > 1
    /\ \A r \in 1..Len(reviews) :
         reviews[r].product_id = req[t].product_id => r = req[t].review_id
    /\ reviews[req[t].review_id].is_active
    /\ Rating(req[t].product_id) = <<MaxGrade, 1>>

\* C10: on the tables of every reachable state, update_product_rating applied
\* twice in a row to a product leaves its rating where the first application
\* left it; the steps of a call change no review; and a call that reads and
\* writes with no review change in between performs exactly that function.
C10_RecomputeIdempotent ==
  /\ [](\A p \in Existing :
          LET once == UpdateProductRating(products, reviews, p)
              twice == UpdateProductRating(once, reviews, p)
          IN twice = once)
  /\ [][\A t \in Tasks :
          /\ (pc[t] \in RecomputePcs /\ pc'[t] # pc[t]) => reviews' = reviews
          /\ ( /\ Recomputed(t)
               /\ req[t].avg = ScalarOrZero(AvgGrade(reviews, req[t].product_id)) )
             => products' = UpdateProductRating(products, reviews, req[t].product_id)]_vars

C10_Witness ==
  \E t \in Tasks :
    /\ pc[t] = "cancelled" /\ req[t].ended_at = "write"
    /\ ProductExists(req[t].product_id)
    /\ LET p == req[t].product_id
           once == UpdateProductRating(products, reviews, p)
       IN /\ once[p].rating # Rating(p)
          /\ Rating(p) # Zero
          /\ UpdateProductRating(once, reviews, p) = once
\* C11: in every step, under any interleaving, the reviews table keeps all
\* its rows in place (it only grows at the end), no review's grade or
\* product_id changes, and no inactive review becomes active again.
C11_ReviewsAppendFlagOnly ==
  [][/\ Len(reviews') >= Len(reviews)
     /\ \A r \in 1..Len(reviews) :
          /\ reviews'[r].grade = reviews[r].grade
          /\ reviews'[r].product_id = reviews[r].product_id
          /\ reviews'[r].is_active => reviews[r].is_active]_vars

\* two delete_review requests for the same review have both committed their
\* UPDATE: the second one ran on a row that was already inactive
C11_Witness ==
  \E t, u \in Tasks :
    /\ t # u
    /\ req[t].kind = "delete" /\ req[u].kind = "delete"
    /\ pc[t] = "done" /\ pc[u] = "done"
    /\ req[t].review_id = req[u].review_id
    /\ ~reviews[req[t].review_id].is_active

\* C12: in every reachable state, under any interleaving of create_review and
\* delete_review requests (lost updates included), every product's rating is
\* 0.0 or a value x with 1.0 <= x <= 5.0.
C12_RatingInRange ==
  \A p \in Existing :
    \/ Rating(p) = Zero
    \/ /\ Rating(p) # None
       /\ Rating(p)[2] > 0
       /\ MinGrade * Rating(p)[2] <= Rating(p)[1]
       /\ Rating(p)[1] <= MaxGrade * Rating(p)[2]

\* two overlapping requests left a rating that is not the mean of the active
\* reviews and not a grade of any of them, and it is still within the range
C12_Witness ==
  \E p \in Existing :
    /\ Quiescent
    /\ ~RatingIsMean(p)
    /\ Rating(p) # Zero
    /\ ActiveReviewsOf(p) # {}
    /\ \A r \in 1..Len(reviews) :
         reviews[r].product_id = p => Rating(p) # <<reviews[r].grade, 1>>

\* C13: under any interleaving, when a create_review's recomputation reads
\* the average, the request's own review is committed, and unless it has
\* been deactivated in the meantime it belongs to the set the average is
\* taken over (so the average is not 0.0); the value the recomputation then
\* persists is the average it read.
C13_CreateObservesOwnWrite ==
  [][\A t \in Tasks :
       req[t].kind = "create" =>
         /\ (pc[t] = "agg" /\ pc'[t] = "write") =>
              /\ OwnWriteCommitted(t)
              /\ LET r == req[t].review_id
                     S == ActiveReviewsOf(req[t].product_id)
                 IN /\ reviews[r].is_active => (r \in S /\ req'[t].avg # Zero)
                    /\ IF S = {} THEN req'[t].avg = Zero
                       ELSE req'[t].avg[1] * Cardinality(S)
                              = SumGrades(reviews, S) * req'[t].avg[2]
         /\ Recomputed(t) =>
              products'[req[t].product_id].rating = req[t].avg]_vars

\* two overlapping create_review requests for one product have both
\* returned; the persisted rating is the grade of one of them alone, the
\* average over a set that held its own review and not yet the other's
C13_Witness ==
  \E t, u \in Tasks :
    /\ t # u
    /\ pc[t] = "done" /\ pc[u] = "done"
    /\ req[t].kind = "create" /\ req[u].kind = "create"
    /\ req[t].product_id = req[u].product_id
    /\ overlap[t] /\ overlap[u]
    /\ req[t].grade # req[u].grade
    /\ ActiveReviewsOf(req[t].product_id) = {req[t].review_id, req[u].review_id}
    /\ Rating(req[t].product_id) = <<req[t].grade, 1>>

\* C14: under any interleaving of create_review with delete_product, a step
\* that inserts a review inserts it for a product that is active in that
\* step; and a create_review that finds its product missing or soft-deleted
\* ends with 404, stores no review and changes no rating.
C14_InsertOnlyForActiveProduct ==
  [][/\ Len(reviews') > Len(reviews) =>
          ActiveProduct(reviews'[Len(reviews')].product_id)
     /\ \A t \in Tasks :
          (pc[t] = "idle" /\ req'[t].kind = "create") =>
            /\ \A p \in ProductIds, g \in GradeInputs :
                 (StartCreateReview(t, p, g) /\ ~ActiveProduct(p)) =>
                   pc'[t] = "rejected404"
            /\ pc'[t] = "rejected404" =>
                 (reviews' = reviews /\ products' = products)]_vars

\* C15: a delete_review naming a review that does not exist or is inactive
\* ends with 404, changes no review and no rating and never enters
\* update_product_rating; and, under any interleaving of delete_review
\* requests, no two of them that name the same review both return success.
C15_AtMostOneDeleteSucceeds ==
  /\ [][\A t \in Tasks :
          (pc[t] = "idle" /\ req'[t].kind = "delete") =>
            \A r \in ReviewIdInputs :
              (StartDeleteReview(t, r) /\ ~ActiveReview(r)) =>
                /\ pc'[t] = "rejected404"
                /\ reviews' = reviews
                /\ products' = products]_vars
  /\ [](\A t \in Tasks :
          (req[t].kind = "delete" /\ pc[t] = "rejected404") => req[t].calls = 0)
  /\ [](\A t, u \in Tasks :
          ( /\ t # u
            /\ req[t].kind = "delete" /\ req[u].kind = "delete"
            /\ pc[t] = "done" /\ pc[u] = "done" )
          => req[t].review_id # req[u].review_id)

\* C16: once a create_review and a delete_review of another, already active
\* review of the same product have both returned (every other request having
\* run alone to completion or been rejected), the new review is active, the
\* deleted one is inactive, and the product's rating is the mean of the
\* grades of its active reviews.
C16_CreateDeleteNoLostUpdate ==
  \A t, u \in Tasks :
    ( /\ t # u
      /\ pc[t] = "done" /\ req[t].kind = "create"
      /\ pc[u] = "done" /\ req[u].kind = "delete"
      /\ req[t].product_id = req[u].product_id
      /\ req[t].review_id # req[u].review_id
      /\ \A w \in Tasks \ {t, u} :
           \/ pc[w] \in {"idle"} \cup RejectedPcs
           \/ pc[w] = "done" /\ ~overlap[w] )
    => /\ req[t].review_id \in ActiveReviewsOf(req[t].product_id)
       /\ req[u].review_id \notin ActiveReviewsOf(req[t].product_id)
       /\ RatingIsMean(req[t].product_id)
====
